---- MODULE Spec2Model ----
(***************************************************************************)
(* CU Trial Data Validator (src/app.py): validator chain, pipeline         *)
(* orchestrator, seen-file tracker, error ledger and folder processor.     *)
(*                                                                         *)
(* Abstractions.  A file name is a record (stem, digits, ext); a file's    *)
(* bytes are an index into the CONTENTS table, whose entries carry what    *)
(* csv.reader yields for those bytes (header record, data records, and     *)
(* whether reading fails early or late); sha256 is injective on contents;  *)
(* cells are strings whose int()/float()/strip()/regex behaviour is given  *)
(* by lookup tables; floats are scaled by 100; a calendar day is           *)
(* <<year, month, day>>.                                                   *)
(***************************************************************************)
EXTENDS Integers, Sequences, FiniteSets, TLC

\* ------------------------------- bounds ---------------------------------
MaxCalls == 2      \* process_file invocations in one behaviour
MaxDrops == 2      \* files placed into the incoming folder in one behaviour

\* --------------------------- configuration ------------------------------
EXPECTED_HEADERS ==
  <<"batch_id", "timestamp", "reading1", "reading2", "reading3", "reading4",
    "reading5", "reading6", "reading7", "reading8", "reading9", "reading10">>

\* Wall-clock days the runs can happen on (datetime.now()).
WALL_DAYS == << <<2024, 1, 2>>, <<2026, 11, 6>> >>

\* ------------------------------ file names ------------------------------
FILENAMES ==
  { [stem |-> "MED_DATA_", digits |-> <<2,0,2,4,0,1,0,1,1,2,0,0,0,0>>, ext |-> ".csv"],
    [stem |-> "MED_DATA_", digits |-> <<2,0,2,4,0,1,0,2,1,2,0,0,0,0>>, ext |-> ".csv"],
    [stem |-> "MED_DATA_", digits |-> <<2,0,2,4,1,3,0,1,1,2,0,0,0,0>>, ext |-> ".csv"],
    [stem |-> "notes",     digits |-> <<>>,                           ext |-> ".csv"] }

\* FILENAME_RX = ^MED_DATA_(\d{14})\.csv$
FILENAME_RX(filename) ==
  /\ filename.stem = "MED_DATA_"
  /\ Len(filename.digits) = 14
  /\ filename.ext = ".csv"

Num2(ds, i) == 10 * ds[i] + ds[i + 1]
Num4(ds, i) == 1000 * ds[i] + 100 * ds[i + 1] + 10 * ds[i + 2] + ds[i + 3]

IsLeap(y) == (y % 4 = 0 /\ y % 100 # 0) \/ y % 400 = 0

DaysInMonth(y, m) ==
  IF m = 2 THEN (IF IsLeap(y) THEN 29 ELSE 28)
  ELSE IF m \in {4, 6, 9, 11} THEN 30 ELSE 31

\* datetime.strptime(ts, "%Y%m%d%H%M%S"): the six fields of a 14-digit string,
\* or a ValueError when they are not a calendar date/time.
strptime(ds) ==
  LET y  == Num4(ds, 1)
      mo == Num2(ds, 5)
      d  == Num2(ds, 7)
      h  == Num2(ds, 9)
      mi == Num2(ds, 11)
      s  == Num2(ds, 13)
      good == /\ y >= 1
              /\ mo \in 1..12
              /\ d >= 1 /\ d <= DaysInMonth(y, mo)
              /\ h <= 23 /\ mi <= 59 /\ s <= 59
  IN  [ValueError |-> ~good, dt |-> IF good THEN <<y, mo, d, h, mi, s>> ELSE <<>>]

\* dt.strftime('%Y/%m/%d'): the date bucket of a datetime.
strftime_ymd(dt) == <<dt[1], dt[2], dt[3]>>

\* sorted() on paths of one directory: byte order of the names.
StemRank(stem) == IF stem = "MED_DATA_" THEN 1 ELSE 2

RECURSIVE LexLess(_, _)
LexLess(a, b) ==
  IF a = <<>> THEN b # <<>>
  ELSE IF b = <<>> THEN FALSE
  ELSE IF Head(a) # Head(b) THEN Head(a) < Head(b)
  ELSE LexLess(Tail(a), Tail(b))

NameLess(a, b) == LexLess(<<StemRank(a.stem)>> \o a.digits, <<StemRank(b.stem)>> \o b.digits)

RECURSIVE sorted(_)
sorted(S) ==
  IF S = {} THEN <<>>
  ELSE LET m == CHOOSE x \in S : \A y \in S \ {x} : NameLess(x, y)
       IN  <<m>> \o sorted(S \ {m})

\* ------------------------------- cells ----------------------------------
NONE_CELL == "<None>"     \* DictReader's restval for a missing field

strip(s) == IF s = " 3 " THEN "3" ELSE s

INT_LITERALS == {"1", "2", "3", "03", "0", "-1"}

int(s) ==
  CASE s = "1"  -> 1
    [] s = "2"  -> 2
    [] s = "3"  -> 3
    [] s = "03" -> 3
    [] s = "0"  -> 0
    [] s = "-1" -> -1

FLOAT_LITERALS == INT_LITERALS \cup {"0.1", "9.99", "10.0"}

\* float(s), scaled by 100
float(s) ==
  CASE s = "0.1"  -> 10
    [] s = "9.99" -> 999
    [] s = "10.0" -> 1000
    [] OTHER      -> 100 * int(s)

\* TIMESTAMP_RX = ^\d{2}:\d{2}:\d{2}$
TIMESTAMP_RX(s) == s \in {"12:00:00", "25:00:00"}

\* ------------------------------ contents --------------------------------
GoodRow(bid) == <<bid, "12:00:00">> \o [i \in 1..10 |-> "0.1"]
ShortRow(bid) == <<bid, "12:00:00">> \o [i \in 1..9 |-> "0.1"]
RowWith(bid, ts, r3) ==
  <<bid, ts, "0.1", "0.1", r3, "0.1", "0.1", "0.1", "0.1", "0.1", "0.1", "0.1">>

SWAPPED_HEADERS ==
  <<"timestamp", "batch_id", "reading1", "reading2", "reading3", "reading4",
    "reading5", "reading6", "reading7", "reading8", "reading9", "reading10">>

\* What the bytes of each distinct file content are: size in bytes (0 or not),
\* the header record, the data records, and where reading the text fails
\* ("early": within the first two records, "late": in a later record).
CONTENTS ==
  << [size |-> 1, header |-> EXPECTED_HEADERS, rows |-> <<GoodRow("1")>>, fault |-> "none"],
     [size |-> 1, header |-> EXPECTED_HEADERS, rows |-> <<GoodRow("3"), GoodRow("03")>>, fault |-> "none"],
     [size |-> 0, header |-> <<>>, rows |-> <<>>, fault |-> "none"],
     [size |-> 1, header |-> EXPECTED_HEADERS, rows |-> <<>>, fault |-> "early"],
     [size |-> 1, header |-> SWAPPED_HEADERS, rows |-> <<RowWith("1", "12:00:00", "10.0")>>, fault |-> "none"],
     [size |-> 1, header |-> EXPECTED_HEADERS, rows |-> <<ShortRow("1"), GoodRow("2"), ShortRow("3")>>, fault |-> "none"],
     [size |-> 1, header |-> EXPECTED_HEADERS, rows |-> <<GoodRow("1"), RowWith("0", "noon", "10.0")>>, fault |-> "none"],
     [size |-> 1, header |-> EXPECTED_HEADERS, rows |-> <<GoodRow("3"), GoodRow("1"), GoodRow(" 3 ")>>, fault |-> "none"],
     [size |-> 1, header |-> EXPECTED_HEADERS, rows |-> <<GoodRow("1"), GoodRow("2")>>, fault |-> "late"] >>

ContentIds == 1..Len(CONTENTS)

\* A file on disk: its bytes and whether open() succeeds on it.
FILES == [content : ContentIds, readable : {TRUE}] \cup {[content |-> 1, readable |-> FALSE]}

NoFile == [content |-> 0, readable |-> FALSE]

\* hashlib.sha256 of a content (injective)
sha256(c) == 1000 + c

\* ------------------------------- state ----------------------------------
VARIABLES
  incoming,     \* data/incoming: file name -> file on disk, or NoFile
  archive,      \* archive root: set of [dir, name, content]
  rejected,     \* data/rejected: set of [dir, name, content]
  seen_files,   \* rows of the seen_files table: [filename, sha256, first_seen_ts]
  ledger,       \* logs/errors.jsonl: sequence of records, one per line
  clock,        \* index into WALL_DAYS: the current wall-clock day
  pipeline,     \* the Pipeline object of the current run: [dry_run, no_move]
  files,        \* process_folder: the files of the sorted list not yet processed
  stats,        \* process_folder: [total, valid, invalid]
  pc,           \* where the program is: "idle", "loop", "marked", "direct"
  cur,          \* process_file between mark_seen and the move: [filename, dt]
  exit_status,  \* "none" while no run has ended, else "0", "1" or "traceback"
  calls,        \* history: one record per process_file invocation
  tracker_calls, \* history: one record per direct Tracker.mark_seen call
  drops,        \* history: number of files placed into incoming
  listed        \* history: the sorted list process_folder built for the current run

vars == <<incoming, archive, rejected, seen_files, ledger, clock, pipeline,
          files, stats, pc, cur, exit_status, calls, tracker_calls, drops, listed>>

\* ---------------------------- error ledger ------------------------------
Msg(text) == [text |-> text, num |-> -1, strs |-> <<>>]
MsgNum(text, n) == [text |-> text, num |-> n, strs |-> <<>>]
MsgStrs(text, ss) == [text |-> text, num |-> -1, strs |-> ss]
MsgCol(text, col, n) == [text |-> text, num |-> n, strs |-> <<col>>]

\* The validation context (a dict): absent keys are <<>>, <<>> and 0.
EmptyContext == [dt |-> <<>>, ts |-> <<>>, sha |-> 0]

\* context.update(meta)
update(context, meta) ==
  [dt  |-> IF meta.dt # <<>> THEN meta.dt ELSE context.dt,
   ts  |-> IF meta.ts # <<>> THEN meta.ts ELSE context.ts,
   sha |-> IF meta.sha # 0 THEN meta.sha ELSE context.sha]

\* json.dumps accepts strings and numbers; a datetime value raises TypeError.
JsonSerializable(meta) == meta.dt = <<>>

\* ErrorLogger._sha256: None without a path, IOError when open() fails.
ErrorLogger_sha256(file) ==
  IF file = NoFile THEN [raised |-> FALSE, sha |-> 0]
  ELSE IF ~file.readable THEN [raised |-> TRUE, sha |-> 0]
  ELSE [raised |-> FALSE, sha |-> sha256(file.content)]

\* ErrorLogger.emit: the ledger after the call and whether the call raised.
emit(log, filename, rule, message, row, file, meta) ==
  LET h == ErrorLogger_sha256(file)
      rec == [guid |-> Len(log) + 1,
              filename |-> filename,
              sha256 |-> h.sha,
              rule |-> rule,
              message |-> message,
              row |-> row,
              occurred_at |-> WALL_DAYS[clock],
              meta |-> meta]
  IN  IF h.raised \/ ~JsonSerializable(meta)
        THEN [raised |-> TRUE, log |-> log]
        ELSE [raised |-> FALSE, log |-> Append(log, rec)]

\* ------------------------------ tracker ---------------------------------
\* Tracker.hash_file
hash_file(file) ==
  IF ~file.readable THEN [raised |-> TRUE, sha |-> 0]
  ELSE [raised |-> FALSE, sha |-> sha256(file.content)]

\* Tracker.is_seen
is_seen(table, sha) == \E r \in table : r.sha256 = sha

\* Tracker.mark_seen: INSERT OR IGNORE under the UNIQUE(sha256) constraint.
mark_seen_plain_insert(table, filename, sha, now) ==
  table \cup {[filename |-> filename, sha256 |-> sha, first_seen_ts |-> now]}

mark_seen_not_written(table, filename, sha, now) == table

mark_seen(table, filename, sha, now) ==
  IF \E r \in table : r.sha256 = sha
    THEN table
    ELSE table \cup {[filename |-> filename, sha256 |-> sha, first_seen_ts |-> now]}

\* ----------------------------- validators -------------------------------
\* ValidationResult, plus `raised` for a validate() that raises instead.
Result(ok, issues, meta) == [ok |-> ok, issues |-> issues, meta |-> meta, raised |-> FALSE]
Raised == [ok |-> FALSE, issues |-> <<>>, meta |-> EmptyContext, raised |-> TRUE]

Issue(rule, message, row) == [rule |-> rule, message |-> message, row |-> row]

\* return ValidationResult(len(issues) == 0, issues, {}), unless the loop raised
ResultOf(r) ==
  IF r.raised THEN Raised ELSE Result(Len(r.issues) = 0, r.issues, EmptyContext)

FilenameValidator_regex_only(filename, file) ==
  IF ~FILENAME_RX(filename)
    THEN Result(FALSE, <<Issue("filename_format", Msg("invalid filename format"), 0)>>, EmptyContext)
    ELSE Result(TRUE, <<>>, [dt |-> strptime(filename.digits).dt, ts |-> filename.digits, sha |-> 0])

FilenameValidator(filename, file) ==
  IF ~FILENAME_RX(filename)
    THEN Result(FALSE, <<Issue("filename_format", Msg("invalid filename format"), 0)>>, EmptyContext)
    ELSE LET p == strptime(filename.digits)
         IN  IF p.ValueError
               THEN Result(FALSE, <<Issue("filename_format", Msg("invalid datetime in filename"), 0)>>, EmptyContext)
               ELSE Result(TRUE, <<>>, [dt |-> p.dt, ts |-> filename.digits, sha |-> 0])

NonEmptyValidator(filename, file) ==
  IF CONTENTS[file.content].size = 0
    THEN Result(FALSE, <<Issue("non_empty", Msg("file is empty"), 0)>>, EmptyContext)
    ELSE Result(TRUE, <<>>, EmptyContext)

CSVParseValidator(filename, file) ==
  IF ~file.readable \/ CONTENTS[file.content].fault = "early"
    THEN Result(FALSE, <<Issue("csv_parse", Msg("CSV parse error"), 0)>>, EmptyContext)
    ELSE Result(TRUE, <<>>, EmptyContext)

HeaderValidator(filename, file) ==
  LET c == CONTENTS[file.content]
  IN  IF ~file.readable THEN Raised
      ELSE IF c.size = 0
        THEN Result(FALSE, <<Issue("header_check", Msg("missing header"), 0)>>, EmptyContext)
      ELSE IF c.fault = "early" THEN Raised
      ELSE IF c.header # EXPECTED_HEADERS
        THEN Result(FALSE, <<Issue("header_check", MsgStrs("header mismatch", c.header), 0)>>, EmptyContext)
      ELSE Result(TRUE, <<>>, EmptyContext)

\* enumerate(reader, start=2): the k-th data record is numbered k + 1.
RowNumber(k) == k + 1

RECURSIVE RowShapeIssues(_, _)
RowShapeIssues(rows, k) ==
  IF k > Len(rows) THEN <<>>
  ELSE (IF Len(rows[k]) # Len(EXPECTED_HEADERS)
          THEN <<Issue("row_shape", MsgNum("row has cols", Len(rows[k])), RowNumber(k))>>
          ELSE <<>>)
       \o RowShapeIssues(rows, k + 1)

RowShapeValidator(filename, file) ==
  IF ~file.readable \/ CONTENTS[file.content].fault # "none" THEN Raised
  ELSE ResultOf([raised |-> FALSE, issues |-> RowShapeIssues(CONTENTS[file.content].rows, 1)])

\* csv.DictReader: blank records are skipped; a record shorter than the header
\* gets None for the missing fields; a column absent from the header is not a
\* key, so row.get(col, '') is ''.
DictRows(rows) == SelectSeq(rows, LAMBDA r : r # <<>>)

DictGet(header, row, col) ==
  LET idx == {i \in 1..Len(header) : header[i] = col}
  IN  IF idx = {} THEN ""
      ELSE LET i == CHOOSE j \in idx : \A k \in idx : k <= j
           IN  IF i <= Len(row) THEN row[i] ELSE NONE_CELL

NoIssues == [raised |-> FALSE, issues |-> <<>>]
AttributeError == [raised |-> TRUE, issues |-> <<>>]
Issues(iss) == [raised |-> FALSE, issues |-> iss]
Then(a, b) ==
  IF a.raised \/ b.raised THEN AttributeError ELSE Issues(a.issues \o b.issues)

BatchIdIssues(header, row, i) ==
  LET cell == DictGet(header, row, "batch_id")
  IN  IF cell = NONE_CELL \/ strip(cell) \notin INT_LITERALS
        THEN Issues(<<Issue("value_domain", Msg("batch_id not integer"), i)>>)
      ELSE IF int(strip(cell)) <= 0
        THEN Issues(<<Issue("value_domain", Msg("batch_id not positive"), i)>>)
      ELSE NoIssues

TimestampIssues(header, row, i) ==
  LET cell == DictGet(header, row, "timestamp")
  IN  IF cell = NONE_CELL THEN AttributeError
      ELSE IF ~TIMESTAMP_RX(strip(cell))
        THEN Issues(<<Issue("value_domain", Msg("bad timestamp format"), i)>>)
      ELSE NoIssues

RECURSIVE ReadingIssues(_, _, _, _)
ReadingIssues(header, row, i, k) ==
  IF k > Len(EXPECTED_HEADERS) THEN NoIssues
  ELSE LET col == EXPECTED_HEADERS[k]
           cell == DictGet(header, row, col)
           here == IF cell = NONE_CELL THEN AttributeError
                   ELSE IF strip(cell) \notin FLOAT_LITERALS
                     THEN Issues(<<Issue("value_domain", MsgCol("not float", col, -1), i)>>)
                   ELSE IF float(strip(cell)) >= 1000
                     THEN Issues(<<Issue("value_domain", MsgCol("out of range", col, float(strip(cell))), i)>>)
                   ELSE NoIssues
       IN  Then(here, ReadingIssues(header, row, i, k + 1))

RECURSIVE ValueDomainIssues(_, _, _)
ValueDomainIssues(header, rows, k) ==
  IF k > Len(rows) THEN NoIssues
  ELSE Then(Then(BatchIdIssues(header, rows[k], RowNumber(k)),
                 Then(TimestampIssues(header, rows[k], RowNumber(k)),
                      ReadingIssues(header, rows[k], RowNumber(k), 3))),
            ValueDomainIssues(header, rows, k + 1))

ValueDomainValidator(filename, file) ==
  IF ~file.readable \/ CONTENTS[file.content].fault # "none" THEN Raised
  ELSE ResultOf(ValueDomainIssues(CONTENTS[file.content].header,
                                  DictRows(CONTENTS[file.content].rows), 1))

\* batch ids compared as integers instead of as trimmed strings
RECURSIVE DuplicateBatchIssues_as_int(_, _, _, _)
DuplicateBatchIssues_as_int(header, rows, k, seen) ==
  IF k > Len(rows) THEN NoIssues
  ELSE IF DictGet(header, rows[k], "batch_id") = NONE_CELL THEN AttributeError
  ELSE IF int(strip(DictGet(header, rows[k], "batch_id"))) \in seen
    THEN Then(Issues(<<Issue("duplicate_batch_id",
                             MsgStrs("duplicate batch_id", <<strip(DictGet(header, rows[k], "batch_id"))>>),
                             RowNumber(k))>>),
              DuplicateBatchIssues_as_int(header, rows, k + 1, seen))
  ELSE DuplicateBatchIssues_as_int(header, rows, k + 1,
                                   seen \cup {int(strip(DictGet(header, rows[k], "batch_id")))})

RECURSIVE DuplicateBatchIssues(_, _, _, _)
DuplicateBatchIssues(header, rows, k, seen) ==
  IF k > Len(rows) THEN NoIssues
  ELSE LET cell == DictGet(header, rows[k], "batch_id")
       IN  IF cell = NONE_CELL THEN AttributeError
           ELSE LET bid == strip(cell)
                IN  IF bid \in seen
                      THEN Then(Issues(<<Issue("duplicate_batch_id", MsgStrs("duplicate batch_id", <<bid>>), RowNumber(k))>>),
                                DuplicateBatchIssues(header, rows, k + 1, seen))
                      ELSE DuplicateBatchIssues(header, rows, k + 1, seen \cup {bid})

DuplicateBatchValidator(filename, file) ==
  IF ~file.readable \/ CONTENTS[file.content].fault # "none" THEN Raised
  ELSE ResultOf(DuplicateBatchIssues(CONTENTS[file.content].header,
                                     DictRows(CONTENTS[file.content].rows), 1, {}))

UniquenessValidator(filename, file, table) ==
  LET h == hash_file(file)
  IN  IF h.raised THEN Raised
      ELSE IF is_seen(table, h.sha)
        THEN Result(FALSE, <<Issue("file_uniqueness", Msg("duplicate file (sha256)"), 0)>>,
                    [dt |-> <<>>, ts |-> <<>>, sha |-> h.sha])
      ELSE Result(TRUE, <<>>, [dt |-> <<>>, ts |-> <<>>, sha |-> h.sha])

\* A validator a caller passes to Pipeline(validators=...): a subclass of
\* BaseValidator whose validate returns ValidationResult(False), that is
\* ok = False with the default (empty) issue list.
QuietValidator(filename, file) == Result(FALSE, <<>>, EmptyContext)

\* ------------------------------ pipeline --------------------------------
DEFAULT_PIPELINE ==
  <<"filename_format", "non_empty", "csv_parse", "header_check",
    "row_shape", "value_domain", "duplicate_batch_id", "file_uniqueness">>

\* v.validate(filename, path, context=context) for the validator named v
validate(v, filename, file, table) ==
  CASE v = "filename_format"    -> FilenameValidator(filename, file)
    [] v = "non_empty"          -> NonEmptyValidator(filename, file)
    [] v = "csv_parse"          -> CSVParseValidator(filename, file)
    [] v = "header_check"       -> HeaderValidator(filename, file)
    [] v = "row_shape"          -> RowShapeValidator(filename, file)
    [] v = "value_domain"       -> ValueDomainValidator(filename, file)
    [] v = "duplicate_batch_id" -> DuplicateBatchValidator(filename, file)
    [] v = "file_uniqueness"    -> UniquenessValidator(filename, file, table)
    [] v = "quiet_check"        -> QuietValidator(filename, file)

\* The loop of process_file over the validators, without its emit calls:
\* which validators were invoked, how the loop ended ("exception": validate
\* raised, "not_ok": res.ok was false, "all_ok": the list was exhausted), the
\* last result's issues and the context at that point.
RECURSIVE RunValidators(_, _, _, _, _, _, _)
\* The loop without its break: a failing validator does not stop the pipeline.
LoopBody_no_break(res, validators, i, filename, file, table, context, invoked) ==
  IF res.raised
    THEN [kind |-> "exception", invoked |-> Append(invoked, validators[i]), v |-> validators[i],
          issues |-> <<>>, context |-> context]
  ELSE IF ~res.ok
    THEN [RunValidators(validators, i + 1, filename, file, table,
                        update(context, res.meta), Append(invoked, validators[i]))
            EXCEPT !.kind = "not_ok", !.v = validators[i], !.issues = res.issues \o @]
  ELSE RunValidators(validators, i + 1, filename, file, table,
                     update(context, res.meta), Append(invoked, validators[i]))

\* One iteration of the loop, given the result res of validators[i].validate.
LoopBody(res, validators, i, filename, file, table, context, invoked) ==
  IF res.raised
    THEN [kind |-> "exception", invoked |-> Append(invoked, validators[i]), v |-> validators[i],
          issues |-> <<>>, context |-> context]
  ELSE IF ~res.ok
    THEN [kind |-> "not_ok", invoked |-> Append(invoked, validators[i]), v |-> validators[i],
          issues |-> res.issues, context |-> update(context, res.meta)]
  ELSE RunValidators(validators, i + 1, filename, file, table,
                     update(context, res.meta), Append(invoked, validators[i]))

RunValidators(validators, i, filename, file, table, context, invoked) ==
  IF i > Len(validators)
    THEN [kind |-> "all_ok", invoked |-> invoked, v |-> "", issues |-> <<>>, context |-> context]
    ELSE LoopBody(validate(validators[i], filename, file, table),
                  validators, i, filename, file, table, context, invoked)

\* for issue in res.issues: logger.emit(..., path=path, meta=context)
RECURSIVE EmitIssues(_, _, _, _, _, _)
EmitIssues(log, filename, v, issues, file, context) ==
  IF issues = <<>> THEN [raised |-> FALSE, log |-> log]
  ELSE LET issue == Head(issues)
           e == emit(log, filename, issue.rule, issue.message, issue.row, file, context)
       IN  IF e.raised THEN e
           ELSE EmitIssues(e.log, filename, v, Tail(issues), file, context)

\* getattr(v, 'name', 'validator_error'): every validator class has a name.
ExceptionRule(v) == v

\* shutil.move(path, dest / filename) into a directory tree
move(tree, dir, name, content) ==
  {e \in tree : ~(e.dir = dir /\ e.name = name)}
    \cup {[dir |-> dir, name |-> name, content |-> content]}

DefaultMode(pl) == ~pl.dry_run /\ ~pl.no_move

\* The except branch of the loop (lines 250-252) once emit has been called
\* with outcome e: the exception of emit propagates, else return False.
OnException_reject(base, e) ==
  IF e.raised THEN base ELSE [base EXCEPT !.log = e.log, !.step = "reject"]

OnException(base, e) ==
  IF e.raised THEN base ELSE [base EXCEPT !.log = e.log, !.step = "False"]

\* dt = context.get('dt', datetime.now())
archive_dt_now(context, now) == now

archive_dt(context, now) == IF context.dt # <<>> THEN context.dt ELSE now

\* Pipeline.process_file up to (not including) its filesystem move and its
\* tracker write: the validator loop with its emit calls, then the branch on
\* all_issues.  step is "raised" (an exception leaves process_file),
\* "False" (returned after a validator exception), "reject" or "accept".
\* sha = context.get('sha') or tracker.hash_file(path)
sha_of_recomputed(context, file) == hash_file(file)

sha_of(context, file) ==
  IF context.sha # 0 THEN [raised |-> FALSE, sha |-> context.sha] ELSE hash_file(file)

\* The branch on all_issues (line 260) and the hash of line 267, given the
\* outcome e of the emit calls of the loop.
Branch(base, e, h) ==
  IF e.raised THEN [base EXCEPT !.log = e.log]
  ELSE IF base.run.issues # <<>>
    THEN [base EXCEPT !.log = e.log, !.step = "reject"]
  ELSE IF h.raised THEN [base EXCEPT !.log = e.log]
  ELSE [base EXCEPT !.log = e.log, !.sha = h.sha, !.step = "accept"]

\* later is the file as it is on disk when line 267 runs.
Decide(r, filename, file, later, log) ==
  IF r.kind = "exception"
    THEN OnException([run |-> r, log |-> log, sha |-> 0, step |-> "raised"],
                     emit(log, filename, ExceptionRule(r.v), Msg("validator exception"),
                          0, file, EmptyContext))
    ELSE Branch([run |-> r, log |-> log, sha |-> 0, step |-> "raised"],
                IF r.kind = "not_ok"
                  THEN EmitIssues(log, filename, r.v, r.issues, file, r.context)
                  ELSE [raised |-> FALSE, log |-> log],
                sha_of(r.context, later))

\* process_file when another process may rewrite the file after the
\* validator loop: file is what the validators read, later what line 267 finds.
process_file_racing(pl, filename, file, later, table, log) ==
  Decide(RunValidators(pl.validators, 1, filename, file, table, EmptyContext, <<>>),
         filename, file, later, log)

process_file_decide(pl, filename, file, table, log) ==
  process_file_racing(pl, filename, file, file, table, log)

CallRecord(filename, file, d, ret) ==
  [filename |-> filename, file |-> file,
   dry_run |-> pipeline.dry_run, no_move |-> pipeline.no_move,
   seen_before |-> {r.sha256 : r \in seen_files},
   validators |-> pipeline.validators,
   invoked |-> d.run.invoked, kind |-> d.run.kind, v |-> d.run.v,
   issues |-> d.run.issues, nissues |-> Len(d.run.issues),
   log_from |-> Len(ledger) + 1, log_to |-> Len(d.log),
   sha |-> d.sha, ret |-> ret]

NoCur == [filename |-> "", dt |-> <<>>]

Today == strftime_ymd(WALL_DAYS[clock])

\* process_folder's loop body for one file when process_file returns False
\* (lines 286-295), and the uncaught exception otherwise.
Returned(ok) ==
  /\ stats' = [total |-> stats.total + 1,
               valid |-> stats.valid + (IF ok THEN 1 ELSE 0),
               invalid |-> stats.invalid + (IF ok THEN 0 ELSE 1)]
  /\ files' = Tail(files)
  /\ pc' = "loop"
  /\ exit_status' = exit_status

Uncaught ==
  /\ stats' = [stats EXCEPT !.total = stats.total + 1]
  /\ files' = <<>>
  /\ pc' = "idle"
  /\ exit_status' = "traceback"

\* ------------------------------ actions ---------------------------------
Init ==
  /\ incoming = [n \in FILENAMES |-> NoFile]
  /\ archive = {}
  /\ rejected = {}
  /\ seen_files = {}
  /\ ledger = <<>>
  /\ clock \in 1..Len(WALL_DAYS)
  /\ pipeline = [validators |-> DEFAULT_PIPELINE, dry_run |-> FALSE, no_move |-> FALSE]
  /\ files = <<>>
  /\ stats = [total |-> 0, valid |-> 0, invalid |-> 0]
  /\ pc = "idle"
  /\ cur = NoCur
  /\ exit_status = "none"
  /\ calls = <<>>
  /\ tracker_calls = <<>>
  /\ drops = 0
  /\ listed = <<>>

\* A file whose bytes pass every content check.
WellFormed(file) == file.readable /\ file.content \in {1, 2}

\* A name the filename check accepts.
ValidName(name) == FILENAME_RX(name) /\ ~strptime(name.digits).ValueError

\* A file that passes the whole pipeline unless its digest has been seen.
Clean(name, file) == ValidName(name) /\ WellFormed(file)

\* A producer places a file into data/incoming, under a name not present
\* there, while no run is in progress.  At most one file of a behaviour is not
\* clean: it has the first of the valid names, or it has an invalid name and
\* well-formed or empty bytes.
DropFile(name, file) ==
  /\ pc = "idle"
  /\ drops < MaxDrops
  /\ Len(calls) < MaxCalls
  /\ incoming[name] = NoFile
  /\ \/ Clean(name, file)
     \/ /\ \A n \in FILENAMES : incoming[n] = NoFile \/ Clean(n, incoming[n])
        /\ \A i \in 1..Len(calls) : Clean(calls[i].filename, calls[i].file)
        /\ IF ValidName(name)
             THEN \A n \in FILENAMES : ValidName(n) => ~NameLess(n, name)
             ELSE file.content \in {1, 2, 3}
  /\ incoming' = [incoming EXCEPT ![name] = file]
  /\ drops' = drops + 1
  /\ UNCHANGED <<archive, rejected, seen_files, ledger, clock, pipeline, files,
                 stats, pc, cur, exit_status, calls, tracker_calls, listed>>

\* The wall clock passes midnight.
Tick ==
  /\ pc = "idle"
  /\ clock < Len(WALL_DAYS)
  /\ clock' = clock + 1
  /\ UNCHANGED <<incoming, archive, rejected, seen_files, ledger, pipeline, files,
                 stats, pc, cur, exit_status, calls, tracker_calls, drops, listed>>

\* process_folder up to its loop (lines 277-284).  The two flags are read
\* only together (lines 261 and 268), so a run with both set is a dry run.
StartRun(dry_run, no_move) ==
  /\ pc = "idle"
  /\ ~(dry_run /\ no_move)
  /\ Len(calls) < MaxCalls
  /\ \E n \in FILENAMES : incoming[n] # NoFile
  /\ files' = sorted({n \in FILENAMES : incoming[n] # NoFile})
  /\ listed' = files'
  /\ pipeline' = [validators |-> DEFAULT_PIPELINE, dry_run |-> dry_run, no_move |-> no_move]
  /\ stats' = [total |-> 0, valid |-> 0, invalid |-> 0]
  /\ pc' = "loop"
  /\ exit_status' = "none"
  /\ UNCHANGED <<incoming, archive, rejected, seen_files, ledger, clock, cur,
                 calls, tracker_calls, drops>>

\* One iteration of process_folder's loop that ends without an archive move:
\* process_file raises, returns False, or returns True in dry-run / no-move.
\* d is what process_file decided for the file.
ProcessFileReturns(filename, file, d) ==
  /\ ~(d.step = "accept" /\ DefaultMode(pipeline))
  /\ ledger' = d.log
  /\ IF d.step = "reject" /\ DefaultMode(pipeline)
       THEN /\ rejected' = move(rejected, Today, filename, file.content)
            /\ incoming' = [incoming EXCEPT ![filename] = NoFile]
       ELSE UNCHANGED <<rejected, incoming>>
  /\ IF d.step = "raised"
       THEN /\ Uncaught
            /\ calls' = Append(calls, CallRecord(filename, file, d, "raised"))
       ELSE /\ Returned(d.step = "accept")
            /\ calls' = Append(calls, CallRecord(filename, file, d,
                                 IF d.step = "accept" THEN "True" ELSE "False"))

ProcessFile ==
  /\ pc = "loop"
  /\ files # <<>>
  /\ Len(calls) < MaxCalls
  /\ ProcessFileReturns(Head(files), incoming[Head(files)],
       process_file_decide(pipeline, Head(files), incoming[Head(files)], seen_files, ledger))
  /\ UNCHANGED <<archive, seen_files, clock, pipeline, cur, tracker_calls, drops, listed>>

\* process_file on a file that passes, default mode, through the tracker
\* write (lines 243-269).
ProcessFileMarks(filename, file, d) ==
  /\ d.step = "accept" /\ DefaultMode(pipeline)
  /\ ledger' = d.log
  /\ seen_files' = mark_seen(seen_files, filename, d.sha, WALL_DAYS[clock])
  /\ cur' = [filename |-> filename,
             dt |-> archive_dt(d.run.context, WALL_DAYS[clock] \o <<0, 0, 0>>)]
  /\ calls' = Append(calls, CallRecord(filename, file, d, "marked"))

ProcessFileMark ==
  /\ pc = "loop"
  /\ files # <<>>
  /\ Len(calls) < MaxCalls
  /\ ProcessFileMarks(Head(files), incoming[Head(files)],
       process_file_decide(pipeline, Head(files), incoming[Head(files)], seen_files, ledger))
  /\ pc' = "marked"
  /\ UNCHANGED <<incoming, archive, rejected, clock, pipeline, files, stats,
                 exit_status, tracker_calls, drops, listed>>

\* The rest of the success path: the archive move and return True
\* (lines 270-274), then process_folder's bookkeeping.
ProcessFileMove ==
  /\ pc = "marked"
  /\ archive' = move(archive, strftime_ymd(cur.dt), cur.filename, incoming[cur.filename].content)
  /\ incoming' = [incoming EXCEPT ![cur.filename] = NoFile]
  /\ calls' = [calls EXCEPT ![Len(calls)].ret = "True"]
  /\ cur' = NoCur
  /\ Returned(TRUE)
  /\ UNCHANGED <<rejected, seen_files, ledger, clock, pipeline, tracker_calls, drops, listed>>

\* The process is killed between the tracker write and the move.
Crash ==
  /\ pc = "marked"
  /\ pc' = "idle"
  /\ files' = <<>>
  /\ cur' = NoCur
  /\ exit_status' = "killed"
  /\ calls' = [calls EXCEPT ![Len(calls)].ret = "killed"]
  /\ UNCHANGED <<incoming, archive, rejected, seen_files, ledger, clock, pipeline,
                 stats, tracker_calls, drops, listed>>

\* The end of process_folder: the summary and the exit status (lines 296-299)
FinishRun ==
  /\ pc = "loop"
  /\ files = <<>>
  /\ pc' = "idle"
  /\ exit_status' = IF stats.invalid > 0 THEN "1" ELSE "0"
  /\ UNCHANGED <<incoming, archive, rejected, seen_files, ledger, clock, pipeline,
                 files, stats, cur, calls, tracker_calls, drops, listed>>

Next ==
  \/ \E name \in FILENAMES, file \in FILES : DropFile(name, file)
  \/ \E dry_run \in BOOLEAN, no_move \in BOOLEAN : StartRun(dry_run, no_move)
  \/ ProcessFile
  \/ ProcessFileMark
  \/ ProcessFileMove
  \/ Crash
  \/ FinishRun

Spec == Init /\ [][Next]_vars

\* ------------------- the tracker driven directly -------------------------
MaxTrackerCalls == 3

\* A caller (a retry, or a second pipeline instance on the same store) calls
\* tracker.mark_seen(filename, sha) directly.
TrackerMarkSeen(filename, sha) ==
  /\ pc = "idle"
  /\ Len(tracker_calls) < MaxTrackerCalls
  /\ seen_files' = mark_seen(seen_files, filename, sha, WALL_DAYS[clock])
  /\ tracker_calls' = Append(tracker_calls,
        [filename |-> filename, sha |-> sha, before |-> seen_files, after |-> seen_files'])
  /\ UNCHANGED <<incoming, archive, rejected, ledger, clock, pipeline, files,
                 stats, pc, cur, exit_status, calls, drops, listed>>

NextTracker ==
  \/ \E filename \in FILENAMES, c \in {1, 2} : TrackerMarkSeen(filename, sha256(c))
  \/ Tick

SpecTracker == Init /\ [][NextTracker]_vars


\* ------------- process_file called directly by a program ------------------
\* A chain a caller builds from the shipped validators and one of its own.
QUIET_PIPELINE == <<"filename_format", "quiet_check", "file_uniqueness">>

\* Pipeline(validators=validators), default mode, about to process one file
\* of data/incoming (lines 235-240).
StartDirect(validators, name) ==
  /\ pc = "idle"
  /\ Len(calls) < MaxCalls
  /\ incoming[name] # NoFile
  /\ pipeline' = [validators |-> validators, dry_run |-> FALSE, no_move |-> FALSE]
  /\ files' = <<name>>
  /\ pc' = "direct"
  /\ UNCHANGED <<incoming, archive, rejected, seen_files, ledger, clock, stats, cur,
                 exit_status, calls, tracker_calls, drops, listed>>

\* The whole of process_file (lines 242-274) given its decision d; on the
\* success path the bytes on disk are `later` from line 267 on: the file's
\* own, or well-formed bytes another process has written over them.
DirectReturns(filename, file, later, d) ==
  /\ later = file \/ (d.step = "accept" /\ file.readable /\ WellFormed(later))
  /\ ledger' = d.log
  /\ seen_files' = IF d.step = "accept"
                     THEN mark_seen(seen_files, filename, d.sha, WALL_DAYS[clock])
                     ELSE seen_files
  /\ archive' = IF d.step = "accept"
                  THEN move(archive,
                            strftime_ymd(archive_dt(d.run.context, WALL_DAYS[clock] \o <<0, 0, 0>>)),
                            filename, later.content)
                  ELSE archive
  /\ rejected' = IF d.step = "reject"
                   THEN move(rejected, Today, filename, file.content)
                   ELSE rejected
  /\ incoming' = IF d.step \in {"accept", "reject"}
                   THEN [incoming EXCEPT ![filename] = NoFile]
                   ELSE incoming
  /\ calls' = Append(calls, CallRecord(filename, file, d,
                        CASE d.step = "accept" -> "True"
                          [] d.step = "raised" -> "raised"
                          [] OTHER             -> "False"))

DirectProcessFile(later) ==
  /\ pc = "direct"
  /\ DirectReturns(Head(files), incoming[Head(files)], later,
       process_file_racing(pipeline, Head(files), incoming[Head(files)], later,
                           seen_files, ledger))
  /\ files' = <<>>
  /\ pc' = "idle"
  /\ UNCHANGED <<clock, pipeline, stats, cur, exit_status, tracker_calls, drops, listed>>

NextDirect ==
  \/ \E name \in FILENAMES, file \in FILES : DropFile(name, file)
  \/ \E validators \in {DEFAULT_PIPELINE, QUIET_PIPELINE}, name \in FILENAMES :
       StartDirect(validators, name)
  \/ \E later \in FILES : DirectProcessFile(later)

SpecDirect == Init /\ [][NextDirect]_vars

\* ------------------------------ properties ------------------------------
LastCall == calls[Len(calls)]
IsDefault(c) == ~c.dry_run /\ ~c.no_move
NumEmitted(c) == c.log_to - c.log_from + 1
SeenDigests == {r.sha256 : r \in seen_files}
\* The seen_files table as the call c found it (digests only).
TableOf(c) == {[filename |-> c.filename, sha256 |-> s, first_seen_ts |-> <<>>] : s \in c.seen_before}
\* The day written in a file name's 14 digits.
FilenameDay(filename) == <<Num4(filename.digits, 1), Num2(filename.digits, 5), Num2(filename.digits, 7)>>
\* The fields of a ledger record other than its guid and its timestamp.
Fields(rec) == [filename |-> rec.filename, sha256 |-> rec.sha256, rule |-> rec.rule,
                message |-> rec.message, row |-> rec.row, meta |-> rec.meta]

\* C1: content that an earlier process_file call accepted (recording its
\* digest) and that is submitted again later, readable and under a file name
\* that passes the filename check, is rejected by the uniqueness check:
\* process_file returns failure, a ledger record with rule file_uniqueness is
\* written, and the seen-store holds exactly one record for the digest.
C1_ResubmissionRejected ==
  \A i \in 1..Len(calls) : \A j \in 1..Len(calls) :
    ( /\ i < j
      /\ calls[i].ret = "True" /\ IsDefault(calls[i])
      /\ calls[j].file = calls[i].file
      /\ FilenameValidator(calls[j].filename, calls[j].file).ok )
    => /\ calls[j].ret = "False"
       /\ calls[j].v = "file_uniqueness"
       /\ \E k \in calls[j].log_from..calls[j].log_to : ledger[k].rule = "file_uniqueness"
       /\ Cardinality({r \in seen_files : r.sha256 = sha256(calls[i].file.content)}) = 1

\* C2: outside dry-run, at most one process_file call returns success for a
\* given content digest, whatever the files, runs and no_move setting.
C2_AtMostOneSuccessPerDigest ==
  \A i \in 1..Len(calls) : \A j \in 1..Len(calls) :
    ( /\ i < j
      /\ ~calls[i].dry_run /\ ~calls[j].dry_run
      /\ calls[i].ret = "True" /\ calls[j].ret = "True" )
    => calls[i].sha # calls[j].sha

\* C3: the seen-store never holds two records with the same digest, and a
\* mark_seen call for a digest that is already present leaves the whole store
\* (the existing record's filename and first-seen timestamp included) as it was.
C3_OneRecordPerDigest ==
  /\ \A r1 \in seen_files : \A r2 \in seen_files : r1.sha256 = r2.sha256 => r1 = r2
  /\ \A k \in 1..Len(tracker_calls) :
       is_seen(tracker_calls[k].before, tracker_calls[k].sha)
         => tracker_calls[k].after = tracker_calls[k].before

\* A mark_seen call for a present digest, under another file name and on a
\* later day than the existing record's.
W_C3 ==
  \E k \in 1..Len(tracker_calls) :
    /\ \E r \in tracker_calls[k].before :
         /\ r.sha256 = tracker_calls[k].sha
         /\ r.filename # tracker_calls[k].filename
         /\ r.first_seen_ts # WALL_DAYS[clock]
    /\ tracker_calls[k].after = seen_files
    /\ k = Len(tracker_calls)

\* C4: every process_file call invokes the checks in the declared order, a
\* check is invoked only if all checks before it returned ok, the call stops
\* at the first check that does not, and every ledger record the call writes
\* carries the rule of that failing check.  Stated of the latest call: every
\* call is the latest one in the state it returns to.
C4_FixedOrderShortCircuit ==
  calls # <<>> =>
    LET c == LastCall
        n == Len(c.invoked)
        res == [k \in 1..n |-> validate(DEFAULT_PIPELINE[k], c.filename, c.file, TableOf(c))]
    IN  /\ n \in 1..Len(DEFAULT_PIPELINE)
        /\ \A k \in 1..n : c.invoked[k] = DEFAULT_PIPELINE[k]
        /\ \A k \in 1..(n - 1) : res[k].ok /\ ~res[k].raised
        /\ n < Len(DEFAULT_PIPELINE) => ~res[n].ok
        /\ c.kind = "all_ok" <=> (n = Len(DEFAULT_PIPELINE) /\ res[n].ok)
        /\ \A k \in c.log_from..c.log_to : c.kind # "all_ok" /\ ledger[k].rule = c.invoked[n]

\* A file failing both the header check and the value-domain check stopped
\* at the header check.
W_C4 ==
  \E i \in 1..Len(calls) :
    /\ calls[i].kind = "not_ok"
    /\ calls[i].v = "header_check"
    /\ calls[i].invoked = SubSeq(DEFAULT_PIPELINE, 1, 4)
    /\ ~ValueDomainValidator(calls[i].filename, calls[i].file).ok

\* C5: in default mode, when a check reports issues on a readable file
\* (whichever of the eight checks it is), process_file appends one
\* ledger record per issue, moves the file into rejected/<today>, returns
\* failure and leaves the seen-store alone.
C5_RejectLogsAndMoves ==
  calls # <<>> =>
    LET c == LastCall
    IN  (IsDefault(c) /\ c.file.readable /\ c.kind = "not_ok" /\ c.nissues > 0)
          => /\ c.ret = "False"
             /\ NumEmitted(c) = c.nissues
             /\ [dir |-> Today, name |-> c.filename, content |-> c.file.content] \in rejected
             /\ SeenDigests = c.seen_before

\* C6: in default mode, when all checks pass, process_file records the file's
\* digest in the seen-store, writes nothing to the ledger, and on returning
\* success has moved the file from the source directory to the archive bucket
\* of the day written in the file name.
C6_AcceptArchivesByFilenameDate ==
  [][ (calls' # calls /\ IsDefault(calls'[Len(calls')]) /\ calls'[Len(calls')].kind = "all_ok")
        => LET c == calls'[Len(calls')]
           IN  /\ c.ret \in {"marked", "True", "killed"}
               /\ c.sha = sha256(c.file.content)
               /\ is_seen(seen_files', c.sha)
               /\ ledger' = ledger
               /\ c.ret = "True" =>
                    /\ incoming[c.filename] = c.file
                    /\ incoming'[c.filename] = NoFile
                    /\ [dir |-> FilenameDay(c.filename), name |-> c.filename,
                        content |-> c.file.content] \in archive' ]_vars

\* An accepted file archived under its file name's day, which is not today.
W_C6 ==
  /\ calls # <<>>
  /\ IsDefault(LastCall) /\ LastCall.ret = "True"
  /\ FilenameDay(LastCall.filename) # Today
  /\ [dir |-> FilenameDay(LastCall.filename), name |-> LastCall.filename,
      content |-> LastCall.file.content] \in archive
  /\ incoming[LastCall.filename] = NoFile

\* C7: the digest of every archived file is in the seen-store, and between
\* the tracker write and the move, as after a crash there, the digest is
\* recorded and the file is still in the source directory.
C7_SeenBeforeMove ==
  /\ \A e \in archive : is_seen(seen_files, sha256(e.content))
  /\ pc = "marked" =>
       /\ is_seen(seen_files, LastCall.sha)
       /\ incoming[cur.filename] = LastCall.file
  /\ exit_status = "killed" =>
       /\ is_seen(seen_files, LastCall.sha)
       /\ incoming[LastCall.filename] # NoFile

\* After a crash between the two steps: digest seen, file in the source
\* directory and not archived.
W_C7 ==
  /\ exit_status = "killed"
  /\ is_seen(seen_files, LastCall.sha)
  /\ incoming[LastCall.filename] = LastCall.file
  /\ \A e \in archive : e.content # LastCall.file.content

\* C8: a process_file call in which a check raises returns failure, runs no
\* later check, and changes neither the source directory, the seen-store, the
\* archive nor the rejected directory.
C8_ExceptionLeavesFileInPlace ==
  [][ (Len(calls') > Len(calls) /\ calls'[Len(calls')].kind = "exception")
        => LET c == calls'[Len(calls')]
           IN  /\ c.ret = "False"
               /\ c.invoked[Len(c.invoked)] = c.v
               /\ incoming' = incoming
               /\ seen_files' = seen_files
               /\ archive' = archive
               /\ rejected' = rejected ]_vars

\* A default-mode call in which row_shape raised: failure, file still there.
W_C8 ==
  /\ calls # <<>>
  /\ LastCall.kind = "exception" /\ LastCall.v = "row_shape"
  /\ IsDefault(LastCall)
  /\ LastCall.ret = "False"
  /\ incoming[LastCall.filename] = LastCall.file

\* C9: a process_file call in which a check raises appends exactly one
\* ledger record, and the record's rule is validator_error.
C9_ExceptionRuleIsValidatorError ==
  \A i \in 1..Len(calls) :
    calls[i].kind = "exception"
      => /\ NumEmitted(calls[i]) = 1
         /\ ledger[calls[i].log_from].rule = "validator_error"

\* C10: a dry-run process_file call on a readable file still runs the checks
\* and logs the failing check's issues (one record per issue), changes
\* neither the seen-store nor the source, archive and rejected directories, and
\* appends the same ledger records as an earlier dry-run call on the same input.
C10_DryRunLogsWithoutSideEffects ==
  [][ (Len(calls') > Len(calls) /\ calls'[Len(calls')].dry_run
         /\ calls'[Len(calls')].file.readable)
        => LET c == calls'[Len(calls')]
           IN  /\ c.kind = "not_ok" => NumEmitted(c) = c.nissues
               /\ incoming' = incoming
               /\ seen_files' = seen_files
               /\ archive' = archive
               /\ rejected' = rejected
               /\ \A j \in 1..Len(calls) :
                    ( /\ calls[j].dry_run
                      /\ calls[j].filename = c.filename
                      /\ calls[j].file = c.file
                      /\ calls[j].seen_before = c.seen_before )
                    => /\ calls[j].ret = c.ret
                       /\ NumEmitted(calls[j]) = NumEmitted(c)
                       /\ \A k \in 0..(NumEmitted(c) - 1) :
                            Fields(ledger'[calls[j].log_from + k]) = Fields(ledger'[c.log_from + k]) ]_vars

\* The record of the process_file call a step has just begun and ended.
NewCall == calls'[Len(calls')]
IsNewCall == Len(calls') = Len(calls) + 1

\* C11: with no_move set and dry_run clear, a file that passes all checks
\* stays in the source directory, process_file returns success, and the
\* file's digest is in the seen-store afterwards (only the move is skipped).
C11_NoMoveRecordsDigest ==
  [][ (IsNewCall /\ NewCall.no_move /\ ~NewCall.dry_run /\ NewCall.kind = "all_ok")
        => /\ NewCall.ret = "True"
           /\ incoming' = incoming
           /\ is_seen(seen_files', sha256(NewCall.file.content)) ]_vars

\* C12: in a folder run, whatever happens while one file is processed, no
\* exception leaves process_folder and the loop goes on to the files that
\* remain in the sorted list.
C12_NoExceptionEscapesFolderRun ==
  [][ (pc = "loop" /\ IsNewCall)
        => /\ exit_status' # "traceback"
           /\ NewCall.ret # "raised"
           /\ pc' = "marked" \/ (pc' = "loop" /\ files' = Tail(files)) ]_vars

\* C13: an emit call whose record can be serialised (the meta is empty: the
\* file failed the filename check, or a check raised) appends exactly one
\* record even when the file cannot be hashed, the digest field then being
\* null; and no step rewrites or removes a record of the ledger.
C13_EmitNeverRaises ==
  [][ /\ Len(ledger') >= Len(ledger)
      /\ SubSeq(ledger', 1, Len(ledger)) = ledger
      /\ (IsNewCall /\ ( NewCall.kind = "exception"
                         \/ (NewCall.kind = "not_ok" /\ NewCall.v = "filename_format") ))
           => /\ NumEmitted(NewCall) = (IF NewCall.kind = "exception" THEN 1 ELSE NewCall.nissues)
              /\ \A k \in NewCall.log_from..NewCall.log_to :
                    ledger'[k].sha256 = (IF NewCall.file.readable
                                           THEN sha256(NewCall.file.content) ELSE 0) ]_vars

\* The calls of the current folder run.
RunCalls == {i \in 1..Len(calls) : i > Len(calls) - stats.total}

\* C14: when a folder run has ended, total is the number of files listed,
\* valid + invalid = total, valid counts the calls that returned success,
\* and the exit status is non-zero exactly when invalid > 0.
C14_SummaryCountsEveryFile ==
  (pc = "idle" /\ exit_status \in {"0", "1", "traceback"})
    => /\ stats.total = Len(listed)
       /\ stats.valid + stats.invalid = stats.total
       /\ stats.valid = Cardinality({i \in RunCalls : calls[i].ret = "True"})
       /\ (exit_status # "0") <=> (stats.invalid > 0)

\* The same for the runs that reach the end of process_folder.
SummaryOfCompletedRun ==
  (pc = "idle" /\ exit_status \in {"0", "1"})
    => /\ stats.total = Len(listed)
       /\ stats.valid + stats.invalid = stats.total
       /\ stats.valid = Cardinality({i \in RunCalls : calls[i].ret = "True"})
       /\ (exit_status # "0") <=> (stats.invalid > 0)

DataRows(c) == CONTENTS[c.file.content].rows
CitedRows(c) == {c.issues[k].row : k \in 1..Len(c.issues)}

\* The positions (first data record = 1) of the records that are not 12 wide.
OffendingShape(rows) == {k \in 1..Len(rows) : Len(rows[k]) # Len(EXPECTED_HEADERS)}

\* The positions of the 12-wide records with a value outside its domain.
OffendingValue(rows) ==
  {k \in 1..Len(rows) :
     \/ strip(rows[k][1]) \notin INT_LITERALS
     \/ int(strip(rows[k][1])) <= 0
     \/ ~TIMESTAMP_RX(strip(rows[k][2]))
     \/ \E j \in 3..Len(EXPECTED_HEADERS) :
          \/ strip(rows[k][j]) \notin FLOAT_LITERALS
          \/ float(strip(rows[k][j])) >= 1000}

\* C16: when the row-shape or the value-domain check fails a file, the rows
\* its issues cite are exactly the offending data rows, numbered from 1 at
\* the first data record after the header.
C16_RowNumbersHeaderExclusive ==
  \A i \in 1..Len(calls) :
    /\ (calls[i].kind = "not_ok" /\ calls[i].v = "row_shape")
         => CitedRows(calls[i]) = OffendingShape(DataRows(calls[i]))
    /\ (calls[i].kind = "not_ok" /\ calls[i].v = "value_domain")
         => CitedRows(calls[i]) = OffendingValue(DataRows(calls[i]))

\* The same with the numbering the code uses (the header is line 1).
EveryOffendingRowCited ==
  \A i \in 1..Len(calls) :
    /\ (calls[i].kind = "not_ok" /\ calls[i].v = "row_shape")
         => CitedRows(calls[i]) = {RowNumber(k) : k \in OffendingShape(DataRows(calls[i]))}
    /\ (calls[i].kind = "not_ok" /\ calls[i].v = "value_domain")
         => CitedRows(calls[i]) = {RowNumber(k) : k \in OffendingValue(DataRows(calls[i]))}

\* The trimmed batch_id of each data record, and the records that repeat the
\* batch_id of an earlier record.
BatchIds(rows) == [k \in 1..Len(rows) |-> strip(rows[k][1])]
Repeats(rows) ==
  {k \in 1..Len(rows) : \E j \in 1..(k - 1) : BatchIds(rows)[j] = BatchIds(rows)[k]}

\* Two records whose batch_id cells differ only by surrounding blanks.
rows_differ_untrimmed(rows) ==
  \E j \in 1..Len(rows), k \in 1..Len(rows) :
    rows[j][1] # rows[k][1] /\ strip(rows[j][1]) = strip(rows[k][1])

C17_RecordedDigestIsCheckedDigest ==
  calls # <<>> =>
    ( (LastCall.ret = "True" /\ LastCall.kind = "all_ok")
      => /\ LastCall.sha = sha256(LastCall.file.content)
         /\ LastCall.sha \notin LastCall.seen_before
         /\ \E r \in seen_files :
              r.sha256 = sha256(LastCall.file.content) /\ r.filename = LastCall.filename )

\* A file was accepted whose bytes changed after the uniqueness check: the
\* archive holds the later bytes, the seen-store the digest of the checked ones.
W_C17 ==
  /\ calls # <<>>
  /\ LastCall.ret = "True" /\ LastCall.kind = "all_ok"
  /\ \E e \in archive :
       /\ e.name = LastCall.filename
       /\ e.content # LastCall.file.content
  /\ is_seen(seen_files, sha256(LastCall.file.content))
  /\ \A e \in archive : e.name = LastCall.filename => ~is_seen(seen_files, sha256(e.content))

\* C19: process_file returns success (or, in a folder run, has reached its
\* tracker write on the way to it) if and only if every check of the chain
\* was invoked and returned ok without raising; a call in which a check
\* returned ok = False writes nothing to the seen-store and archives nothing.
C19_SuccessIffAllChecksOk ==
  [][ IsNewCall
        => /\ (NewCall.ret \in {"True", "marked"}) <=> (NewCall.kind = "all_ok")
           /\ NewCall.kind = "all_ok" => NewCall.invoked = NewCall.validators
           /\ NewCall.kind = "not_ok" => (seen_files' = seen_files /\ archive' = archive) ]_vars

\* C20: a file once in the archive or in data/rejected stays there with its
\* content, whatever is accepted or rejected later.
C20_MoveNeverOverwrites ==
  [][ /\ \A e \in archive : e \in archive'
      /\ \A e \in rejected : e \in rejected' ]_vars

====
